---- MODULE Spec2Model ----
(***************************************************************************)
(* Model of the chat routing of the HR assistant (src/main.py): the        *)
(* session state (history, pending_checkin), the mood log file, the API    *)
(* key configuration and one action per script run.                        *)
(*                                                                         *)
(* A text is a sequence of pieces.  User input is a sequence of one        *)
(* character pieces, so that strip(), lower(), substring containment and   *)
(* int() are computed character by character.  A fixed reply of the        *)
(* program is a one piece sequence holding the literal (typographic        *)
(* quotes and dashes of the literals are written in ASCII; the character   *)
(* U+2019 of a keyword is the piece "U+2019").                             *)
(***************************************************************************)
EXTENDS Integers, Sequences, FiniteSets, TLC

\* ------------------------------------------------------------------------
\* Bounds of the model
\* ------------------------------------------------------------------------
MaxHistory == 4
MaxClock == 1

\* the calls of log_mood_to_csv the log store specifications follow
MaxAppends == 2

\* the sessions that append to the log at the same time
NumSessions == 2

\* the words of the texts the classifier is applied to
MaxWords == 2

\* the length the history of the long conversation can reach
MaxLongHistory == 14

\* ------------------------------------------------------------------------
\* Text primitives (Python str methods)
\* ------------------------------------------------------------------------
Whitespace == {" ", "\t", "\n", "\r"}

Uppercase == <<"A","B","C","D","E","F","G","H","I","J","K","L","M",
               "N","O","P","Q","R","S","T","U","V","W","X","Y","Z">>

Lowercase == <<"a","b","c","d","e","f","g","h","i","j","k","l","m",
               "n","o","p","q","r","s","t","u","v","w","x","y","z">>

DigitChars == <<"0","1","2","3","4","5","6","7","8","9">>

SeqMin(S) == CHOOSE i \in S : \A j \in S : i <= j

SeqMax(S) == CHOOSE i \in S : \A j \in S : j <= i

\* str.strip(): drop leading and trailing whitespace
Strip(s) ==
    LET idx == {i \in 1..Len(s) : s[i] \notin Whitespace}
    IN IF idx = {} THEN <<>> ELSE SubSeq(s, SeqMin(idx), SeqMax(idx))

LowerChar(c) ==
    IF \E i \in 1..26 : Uppercase[i] = c
    THEN Lowercase[CHOOSE i \in 1..26 : Uppercase[i] = c]
    ELSE c

\* str.lower()
Lower(s) == [i \in 1..Len(s) |-> LowerChar(s[i])]

\* "p in t" on strings
Contains(p, t) ==
    \E i \in 0..(Len(t) - Len(p)) : SubSeq(t, i + 1, i + Len(p)) = p

\* str(n) of a natural number
RECURSIVE Str(_)
Str(n) == IF n < 10 THEN <<DigitChars[n + 1]>>
          ELSE Str(n \div 10) \o <<DigitChars[(n % 10) + 1]>>

IsDigit(c) == \E d \in 1..10 : DigitChars[d] = c

DigitVal(c) == (CHOOSE d \in 1..10 : DigitChars[d] = c) - 1

\* the digits of an int() literal: an optional sign, then digits with
\* single underscores allowed between digits
IntBody(t) == IF Len(t) > 0 /\ t[1] \in {"+", "-"} THEN Tail(t) ELSE t

\* int(text) does not raise ValueError
IsIntLiteral(s) ==
    LET b == IntBody(Strip(s))
    IN /\ Len(b) > 0
       /\ \A i \in 1..Len(b) : IsDigit(b[i]) \/ b[i] = "_"
       /\ b[1] # "_"
       /\ b[Len(b)] # "_"
       /\ \A i \in 1..(Len(b) - 1) : ~(b[i] = "_" /\ b[i + 1] = "_")

RECURSIVE DigitsValue(_)
DigitsValue(b) ==
    IF b = <<>> THEN 0
    ELSE IF b[Len(b)] = "_" THEN DigitsValue(SubSeq(b, 1, Len(b) - 1))
    ELSE 10 * DigitsValue(SubSeq(b, 1, Len(b) - 1)) + DigitVal(b[Len(b)])

\* int(text), for a text that is an int() literal
IntValue(s) ==
    LET t == Strip(s)
    IN IF Len(t) > 0 /\ t[1] = "-" THEN 0 - DigitsValue(IntBody(t))
       ELSE DigitsValue(IntBody(t))

\* ------------------------------------------------------------------------
\* Mood utilities
\* ------------------------------------------------------------------------
\* the dict of detect_mood, in insertion order
mood_map == <<
    <<"stress", <<
        <<"i","'","m"," ","s","t","r","e","s","s","e","d">>,
        <<"i","m"," ","s","t","r","e","s","s","e","d">>,
        <<"f","e","e","l","i","n","g"," ","s","t","r","e","s","s","e","d">>,
        <<"p","r","e","s","s","u","r","e">>,
        <<"o","v","e","r","w","h","e","l","m","e","d">>,
        <<"b","u","r","n","t"," ","o","u","t">>,
        <<"b","u","r","n","e","d"," ","o","u","t">>
    >> >>,
    <<"anxiety", <<
        <<"a","n","x","i","o","u","s">>,
        <<"w","o","r","r","i","e","d">>,
        <<"p","a","n","i","c">>,
        <<"n","e","r","v","o","u","s">>
    >> >>,
    <<"sad", <<
        <<"s","a","d">>,
        <<"f","e","e","l","i","n","g"," ","d","o","w","n">>,
        <<"d","e","p","r","e","s","s","e","d">>,
        <<"h","o","p","e","l","e","s","s">>
    >> >>,
    <<"tired", <<
        <<"t","i","r","e","d">>,
        <<"e","x","h","a","u","s","t","e","d">>,
        <<"d","r","a","i","n","e","d">>,
        <<"n","o"," ","e","n","e","r","g","y">>
    >> >>
>>

\* any(p in text for p in phrases)
AnyIn(phrases, text) == \E i \in 1..Len(phrases) : Contains(phrases[i], text)

\* detect_mood with the last tag of mood_map that has a phrase in the text
detect_mood_LastMatch(text) ==
    LET t == Lower(text)
        hits == {i \in 1..Len(mood_map) : AnyIn(mood_map[i][2], t)}
    IN IF hits = {} THEN "None" ELSE mood_map[SeqMax(hits)][1]

\* detect_mood: the first tag of mood_map with a phrase in the lower-cased
\* text, "None" when there is none
detect_mood(text) ==
    LET t == Lower(text)
        hits == {i \in 1..Len(mood_map) : AnyIn(mood_map[i][2], t)}
    IN IF hits = {} THEN "None" ELSE mood_map[SeqMin(hits)][1]

MOOD_RESPONSES ==
    [stress |-> <<"I'm sorry you're feeling stressed. Consider a short break, slow breathing, and prioritising one thing at a time. If helpful, speak with your manager or HR.">>,
     anxiety |-> <<"Anxiety can be difficult. Take it step by step. If it persists or escalates, please consider speaking with your manager or HR.">>,
     sad |-> <<"I'm sorry you're feeling this way. If you'd like, consider speaking with your manager or HR for support.">>,
     tired |-> <<"It sounds like you've been working hard. If possible, take a break, hydrate, and protect your rest.">>]

keywords == <<
    <<"c","h","e","c","k"," ","i","n">>,
    <<"c","h","e","c","k","-","i","n">>,
    <<"m","o","o","d"," ","c","h","e","c","k">>,
    <<"m","o","o","d"," ","c","h","e","c","k","-","i","n">>,
    <<"h","o","w"," ","a","m"," ","i"," ","d","o","i","n","g">>,
    <<"n","o","t"," ","f","e","e","l","i","n","g"," ","g","o","o","d">>,
    <<"m","o","t","i","v","a","t","e"," ","m","e">>,
    <<"m","o","t","i","v","a","t","i","o","n">>,
    <<"i"," ","f","e","e","l"," ","o","f","f">>,
    <<"i","m"," ","u","n","p","r","o","d","u","c","t","i","v","e">>,
    <<"i","U+2019","m"," ","u","n","p","r","o","d","u","c","t","i","v","e">>
>>

is_checkin_request(text) == AnyIn(keywords, Lower(text))

\* ------------------------------------------------------------------------
\* Mood log store (mood_log.csv)
\* ------------------------------------------------------------------------
\* csv.writer row: the fields joined by "," (no field written by the program
\* holds a comma or a quote, so none is quoted); one row is one line
CsvRow(fields) ==
    IF Len(fields) = 1 THEN fields[1]
    ELSE fields[1] \o <<",">> \o fields[2]

HeaderRow == CsvRow(<<(<<"Timestamp">>), (<<"Mood">>)>>)

\* datetime.now().strftime("%Y-%m-%d %H:%M:%S"): the wall clock reading at
\* one second resolution, rendered as text
Strftime(t) == Str(t)

\* what the file system does to one call of log_mood_to_csv:
\*   "ok"          open() and the writes succeed
\*   "open_fails"  open() raises OSError, the file is untouched
\*   "write_fails" open() creates or opens the file, the write raises OSError
FsOutcomes == {"ok", "open_fails", "write_fails"}

\* log_mood_to_csv: the file after the call
log_mood_to_csv(file, ts, score, fs) ==
    IF fs = "open_fails" THEN file
    ELSE IF fs = "write_fails" THEN [exists |-> TRUE, lines |-> file.lines]
    ELSE [exists |-> TRUE,
          lines |-> file.lines
                    \o (IF ~file.exists THEN <<HeaderRow>> ELSE <<>>)
                    \o <<CsvRow(<<Strftime(ts), Str(score)>>)>>]

\* ------------------------------------------------------------------------
\* Fixed replies
\* ------------------------------------------------------------------------
GREETINGS == {<<"h","i">>, <<"h","e","l","l","o">>, <<"h","e","y">>}

GREETING_REPLY == <<"Hello. Ask me something like: 'How many leave days do I get?' or 'Can you review my CV summary?'">>

CHECKIN_PROMPT == <<"On a scale of 1-10, how are you feeling today? Type a number and press Enter.">>

LoggedReply(score) ==
    <<"Thanks - I've logged your mood as **">> \o Str(score)
    \o <<"/10**. If you'd like, tell me what's driving that score and I'll suggest next steps.">>

REPROMPT == <<"Please enter a whole number from **1 to 10**.">>

MISSING_KEY_REPLY == <<"I can't call DeepSeek yet because the API key is missing. Add it in Streamlit Secrets as **DEEPSEEK_API_KEY** (recommended), or paste it in the sidebar.">>

EMPTY_RESPONSE == <<"Empty response returned.">>

REQUEST_FAILED == <<"DeepSeek request failed (see details below).">>

\* ------------------------------------------------------------------------
\* Inputs
\* ------------------------------------------------------------------------
\* what the user submits in the chat box: nothing, blanks only, a greeting
\* with a capital and blanks, a mood phrase, a check-in phrase, both in one
\* message, the limits 1 and 10 of the score, a number below them and a
\* text that is no integer
ChatInputs == {
    <<>>,
    <<" "," ">>,
    <<" ","H","i"," ">>,
    <<"S","a","d">>,
    <<"c","h","e","c","k"," ","i","n">>,
    <<"s","a","d"," ","c","h","e","c","k"," ","i","n">>,
    <<"1">>,
    <<" ","1","0"," ">>,
    <<"0">>,
    <<"7",".","5">>
}

\* what the completion service does to one request: it raises, or returns a
\* message whose content is None or a string
Responses == {
    [kind |-> "raise", content |-> <<>>],
    [kind |-> "None", content |-> <<>>],
    [kind |-> "str", content |-> <<" "," ">>],
    [kind |-> "str", content |-> <<" ","O","K","\n">>]
}

\* the API key a session runs with (lines 105-113: the secret, the environment
\* variable or the sidebar field, stripped), empty when none is set
ApiKeys == {<<>>, <<"s","k">>}

\* ------------------------------------------------------------------------
\* State
\* ------------------------------------------------------------------------
VARIABLES
    history,          \* st.session_state.history
    pending_checkin,  \* st.session_state.pending_checkin
    mood_log,         \* mood_log.csv: [exists, lines]
    now,              \* the wall clock, in seconds
    DEEPSEEK_API_KEY, \* the API key of the session (line 113)
    user_text,        \* the chat input of the last script run
    route,            \* the branch at which the last script run ended
    store,            \* the result of the last run's log_mood_to_csv call
    shown,            \* the assistant output of the last script run
    outbound,         \* the requests the last script run sent
    detected,         \* the value detect_mood returned for user_text
    writers,          \* the calls of log_mood_to_csv under way, by session
    appends           \* the calls of log_mood_to_csv that have returned

\* the variables of the specifications of the classifier and of the log store
\* alone; the chat session leaves them as they are
aux == <<detected, writers, appends>>

vars == <<history, pending_checkin, mood_log, now, DEEPSEEK_API_KEY,
          user_text, route, store, shown, outbound, detected, writers, appends>>

Msg(role, content) == [role |-> role, content |-> content]

\* lines 131-133: TRUE when client is an OpenAI client, FALSE when it is None
client == DEEPSEEK_API_KEY # <<>>

Init ==
    /\ history = <<>>
    /\ pending_checkin = FALSE
    /\ mood_log \in {[exists |-> FALSE, lines |-> <<>>],
                     [exists |-> TRUE,
                      lines |-> <<HeaderRow, CsvRow(<<Strftime(0), Str(5)>>)>>]}
    /\ now = 0
    /\ DEEPSEEK_API_KEY \in ApiKeys
    /\ user_text = <<>>
    /\ route = "start"
    /\ store = "none"
    /\ shown = <<>>
    /\ outbound = <<>>
    /\ detected = "unset"
    /\ writers = <<>>
    /\ appends = <<>>

\* ------------------------------------------------------------------------
\* One script run that handles a chat message (lines 192-287)
\* ------------------------------------------------------------------------
\* Route without the pending_checkin test of line 225
Route_NoPending(text, pending) ==
    IF Lower(text) \in GREETINGS THEN "greeting"
    ELSE IF detect_mood(text) # "None" THEN "mood"
    ELSE IF is_checkin_request(text) THEN "checkin"
    ELSE "gateway"

\* Route with the check-in test of line 217 ahead of the mood test of line 210
Route_CheckinFirst(text, pending) ==
    IF Lower(text) \in GREETINGS THEN "greeting"
    ELSE IF is_checkin_request(text) THEN "checkin"
    ELSE IF detect_mood(text) # "None" THEN "mood"
    ELSE IF pending THEN "answer"
    ELSE "gateway"

\* Route with the greeting test of line 202 done without lower()
Route_CaseSensitive(text, pending) ==
    IF text \in GREETINGS THEN "greeting"
    ELSE IF detect_mood(text) # "None" THEN "mood"
    ELSE IF is_checkin_request(text) THEN "checkin"
    ELSE IF pending THEN "answer"
    ELSE "gateway"

\* lines 202-247 with a number taken as a check-in answer in any state
Route_NumbersAlwaysAnswer(text, pending) ==
    IF Lower(text) \in GREETINGS THEN "greeting"
    ELSE IF detect_mood(text) # "None" THEN "mood"
    ELSE IF is_checkin_request(text) THEN "checkin"
    ELSE IF pending \/ IsIntLiteral(text) THEN "answer"
    ELSE "gateway"

\* lines 202-247: the branch a message takes, in the order of the tests
Route(text, pending) ==
    IF Lower(text) \in GREETINGS THEN "greeting"
    ELSE IF detect_mood(text) # "None" THEN "mood"
    ELSE IF is_checkin_request(text) THEN "checkin"
    ELSE IF pending THEN "answer"
    ELSE "gateway"

\* line 228 with the lower limit excluded
ValidScore_Above1(score) == 1 < score /\ score <= 10

\* line 228 with the range starting at 0
ValidScore_From0(score) == 0 <= score /\ score <= 10

\* line 228
ValidScore(score) == 1 <= score /\ score <= 10

\* line 255: history[-12:]
ContextWindow == 12

\* line 255 with the slice one message too long: history[-13:]
Recent_OffByOne(h) ==
    IF Len(h) > ContextWindow
    THEN SubSeq(h, Len(h) - ContextWindow, Len(h))
    ELSE h

\* line 255: recent = history[-12:]
Recent(h) ==
    IF Len(h) > ContextWindow
    THEN SubSeq(h, Len(h) - ContextWindow + 1, Len(h))
    ELSE h

RoleUpper(role) == IF role = "user" THEN "USER" ELSE "ASSISTANT"

\* line 256: "\n".join(f"{ROLE}: {content}" for m in recent)
RECURSIVE Context(_)
Context(recent) ==
    IF recent = <<>> THEN <<>>
    ELSE LET m == recent[Len(recent)]
             line == <<RoleUpper(m.role), ": ">> \o m.content
         IN IF Len(recent) = 1 THEN line
            ELSE Context(SubSeq(recent, 1, Len(recent) - 1)) \o <<"\n">> \o line

\* lines 258-271 (no resume uploaded)
Prompt(h) ==
    <<"You are an HR assistant for a UK-based company.",
      "HR POLICY:", "HR_KNOWLEDGE", "RESUME (optional):", "CONTEXT:">>
    \o Context(Recent(h))

ChatRequest(h) == [max_tokens |-> 700, prompt |-> Prompt(h)]

TestRequest == [max_tokens |-> 10, prompt |-> <<"Reply with exactly: OK">>]

\* (content or "").strip() or fallback
\* line 282 without its fallback: (content or "").strip()
ContentOr_NoFallback(resp, fallback) ==
    IF resp.kind = "str" THEN Strip(resp.content) ELSE <<>>

\* line 282: (content or "").strip() or fallback
ContentOr(resp, fallback) ==
    LET c == IF resp.kind = "str" THEN Strip(resp.content) ELSE <<>>
    IN IF c # <<>> THEN c ELSE fallback

Outcome(h, pending, file, r, st, out, req) ==
    [history |-> h, pending_checkin |-> pending, mood_log |-> file,
     route |-> r, store |-> st, shown |-> out, outbound |-> req]

\* lines 202-207 with the history assigned instead of appended to
GreetingBranch_Overwrites(h1, pending, file) ==
    Outcome(<<Msg("assistant", GREETING_REPLY)>>, pending, file,
            "greeting", "none", GREETING_REPLY, <<>>)

\* lines 202-207
GreetingBranch(h1, pending, file) ==
    Outcome(Append(h1, Msg("assistant", GREETING_REPLY)), pending, file,
            "greeting", "none", GREETING_REPLY, <<>>)

\* lines 209-215 with the reply of the first tag for every tag
MoodBranch_StressReply(h1, pending, file, mood) ==
    Outcome(Append(h1, Msg("assistant", MOOD_RESPONSES["stress"])), pending,
            file, "mood", "none", MOOD_RESPONSES["stress"], <<>>)

\* lines 209-215 with the check-in flag cleared by the mood reply
MoodBranch_ResetsPending(h1, pending, file, mood) ==
    Outcome(Append(h1, Msg("assistant", MOOD_RESPONSES[mood])), FALSE, file,
            "mood", "none", MOOD_RESPONSES[mood], <<>>)

\* lines 209-215
MoodBranch(h1, pending, file, mood) ==
    Outcome(Append(h1, Msg("assistant", MOOD_RESPONSES[mood])), pending, file,
            "mood", "none", MOOD_RESPONSES[mood], <<>>)

\* lines 217-223
CheckinBranch(h1, pending, file) ==
    Outcome(Append(h1, Msg("assistant", CHECKIN_PROMPT)), TRUE, file,
            "checkin", "none", CHECKIN_PROMPT, <<>>)

\* lines 237-242
RepromptBranch(h1, pending, file, st) ==
    Outcome(Append(h1, Msg("assistant", REPROMPT)), pending, file,
            "reprompt", st, REPROMPT, <<>>)

\* lines 225-242
AnswerBranch(h1, pending, file, ts, text, fs) ==
    IF ~IsIntLiteral(text) THEN RepromptBranch(h1, pending, file, "none")
    ELSE IF ~ValidScore(IntValue(text))
         THEN RepromptBranch(h1, pending, file, "none")
    ELSE IF fs # "ok"
         THEN RepromptBranch(h1, pending,
                             log_mood_to_csv(file, ts, IntValue(text), fs),
                             "failed")
    ELSE Outcome(Append(h1, Msg("assistant", LoggedReply(IntValue(text)))),
                 FALSE, log_mood_to_csv(file, ts, IntValue(text), fs),
                 "logged", "ok", LoggedReply(IntValue(text)), <<>>)

\* lines 247-252 left out: the call of line 276 is made on client = None,
\* raises and is caught at line 285
MissingKeyBranch_Calls(h1, pending, file) ==
    Outcome(h1, pending, file, "gateway_err", "none", REQUEST_FAILED, <<>>)

\* lines 247-252
MissingKeyBranch(h1, pending, file) ==
    Outcome(Append(h1, Msg("assistant", MISSING_KEY_REPLY)), pending, file,
            "nokey", "none", MISSING_KEY_REPLY, <<>>)

\* lines 273-287 with the call made a second time when it raises
GatewayBranch_Retries(h1, pending, file, resp) ==
    IF resp.kind = "raise"
    THEN Outcome(h1, pending, file, "gateway_err", "none", REQUEST_FAILED,
                 <<ChatRequest(h1), ChatRequest(h1)>>)
    ELSE Outcome(Append(h1, Msg("assistant", ContentOr(resp, EMPTY_RESPONSE))),
                 pending, file, "gateway_ok", "none",
                 ContentOr(resp, EMPTY_RESPONSE), <<ChatRequest(h1)>>)

\* lines 273-287 with the user message taken back when the call raises
GatewayBranch_DropsUserMessage(h1, pending, file, resp) ==
    IF resp.kind = "raise"
    THEN Outcome(SubSeq(h1, 1, Len(h1) - 1), pending, file, "gateway_err",
                 "none", REQUEST_FAILED, <<ChatRequest(h1)>>)
    ELSE Outcome(Append(h1, Msg("assistant", ContentOr(resp, EMPTY_RESPONSE))),
                 pending, file, "gateway_ok", "none",
                 ContentOr(resp, EMPTY_RESPONSE), <<ChatRequest(h1)>>)

\* lines 273-287
GatewayBranch(h1, pending, file, resp) ==
    IF resp.kind = "raise"
    THEN Outcome(h1, pending, file, "gateway_err", "none", REQUEST_FAILED,
                 <<ChatRequest(h1)>>)
    ELSE Outcome(Append(h1, Msg("assistant", ContentOr(resp, EMPTY_RESPONSE))),
                 pending, file, "gateway_ok", "none",
                 ContentOr(resp, EMPTY_RESPONSE), <<ChatRequest(h1)>>)

\* lines 196-287: the run on a non-empty chat input
Handle(h, pending, file, ts, hasClient, input, fs, resp) ==
    LET text == Strip(input)
        h1 == Append(h, Msg("user", text))
        r == Route(text, pending)
    IN CASE r = "greeting" -> GreetingBranch(h1, pending, file)
         [] r = "mood" -> MoodBranch(h1, pending, file, detect_mood(text))
         [] r = "checkin" -> CheckinBranch(h1, pending, file)
         [] r = "answer" -> AnswerBranch(h1, pending, file, ts, text, fs)
         [] OTHER -> IF ~hasClient THEN MissingKeyBranch(h1, pending, file)
                     ELSE GatewayBranch(h1, pending, file, resp)

\* the environment outcomes a run can meet: the file system is consulted
\* only by the answer branch, the completion service only by the Gateway call
NoResponse == [kind |-> "None", content |-> <<>>]

FsDrawn(r, outcomes) == IF r = "answer" THEN outcomes ELSE {"ok"}

RespDrawn(r, hasClient) ==
    IF r = "gateway" /\ hasClient THEN Responses ELSE {NoResponse}

\* a chat run on one of the given inputs, while the history is shorter than
\* the given length
ChatRunOf(inputs, outcomes, maxLen) ==
    \E input \in inputs :
        /\ input # <<>>
        /\ Len(history) + 2 <= maxLen
        /\ \E r \in {Route(Strip(input), pending_checkin)} :
           \E fs \in FsDrawn(r, outcomes), resp \in RespDrawn(r, client) :
           \E o \in {Handle(history, pending_checkin, mood_log, now, client,
                            input, fs, resp)} :
              /\ history' = o.history
              /\ pending_checkin' = o.pending_checkin
              /\ mood_log' = o.mood_log
              /\ route' = o.route
              /\ store' = o.store
              /\ shown' = o.shown
              /\ outbound' = o.outbound
        /\ user_text' = input
        /\ UNCHANGED <<now, DEEPSEEK_API_KEY, aux>>

ChatRunIn(outcomes) == ChatRunOf(ChatInputs, outcomes, MaxHistory)

\* a chat run, the file system failing or not
ChatRun == ChatRunIn(FsOutcomes)

\* a chat run on a file system that does not fail
ChatRunStoreOk == ChatRunIn({"ok"})

\* ------------------------------------------------------------------------
\* The other script run: no chat input, the script stops at line 194
\* ------------------------------------------------------------------------
\* lines 135-149: the Test Connection button; one request is sent when there
\* is a client, whatever the service answers (the sidebar shows the answer)
TestConnection ==
    /\ outbound' = IF client THEN <<TestRequest>> ELSE <<>>
    /\ user_text' = <<>>
    /\ route' = "stop"
    /\ store' = "none"
    /\ shown' = <<>>
    /\ UNCHANGED <<history, pending_checkin, mood_log, now, DEEPSEEK_API_KEY,
                   aux>>

\* the wall clock advances
Tick ==
    /\ now < MaxClock
    /\ now' = now + 1
    /\ UNCHANGED <<history, pending_checkin, mood_log, DEEPSEEK_API_KEY,
                   user_text, route, store, shown, outbound, aux>>

Next == ChatRun \/ TestConnection \/ Tick

Spec == Init /\ [][Next]_vars

\* the same program on a file system that does not fail
NextStoreOk == ChatRunStoreOk \/ TestConnection \/ Tick

SpecStoreOk == Init /\ [][NextStoreOk]_vars

\* ------------------------------------------------------------------------
\* The log store on its own: log_mood_to_csv statement by statement
\* ------------------------------------------------------------------------
\* Streamlit runs the script of every browser session in a thread of its
\* own, and all of them append to the one mood_log.csv.  A call of
\* log_mood_to_csv is four steps: it reads the clock (line 68), asks
\* whether the file exists (line 69), opens it in append mode, which creates
\* it (line 70), and writes its rows (lines 71-74).  The rows stay in the
\* buffer of the file object until the with block closes it, so they reach
\* the file in one write at its end.

\* the scores the sessions append
LogScores == {1, 7, 10}

\* the session that appends alone, and the sessions that append side by side
OneSession == {1}

Sessions == 1..NumSessions

\* a session that is not inside log_mood_to_csv
IdleWriter == [pc |-> "idle", ts |-> 0, exists |-> FALSE, score |-> 0]

\* the chat session at rest, as it is while the log store runs on its own
SessionAtRest ==
    /\ history = <<>>
    /\ pending_checkin = FALSE
    /\ DEEPSEEK_API_KEY = <<>>
    /\ route = "start"
    /\ store = "none"
    /\ shown = <<>>
    /\ outbound = <<>>

InitLog(S) ==
    /\ SessionAtRest
    /\ user_text = <<>>
    /\ mood_log = [exists |-> FALSE, lines |-> <<>>]
    /\ now = 0
    /\ detected = "unset"
    /\ writers = [s \in S |-> IdleWriter]
    /\ appends = <<>>

\* the calls under way
Running == {s \in DOMAIN writers : writers[s].pc # "idle"}

\* line 68: ts = datetime.now().strftime(...)
LogStamp ==
    \E s \in DOMAIN writers :
        /\ writers[s].pc = "idle"
        /\ Len(appends) + Cardinality(Running) < MaxAppends
        /\ \E score \in LogScores :
              writers' = [writers EXCEPT ![s] =
                             [pc |-> "exists", ts |-> now, exists |-> FALSE,
                              score |-> score]]
        /\ UNCHANGED <<history, pending_checkin, mood_log, now, DEEPSEEK_API_KEY,
                       user_text, route, store, shown, outbound, detected,
                       appends>>

\* line 69: exists = os.path.exists(filepath)
LogExists ==
    \E s \in DOMAIN writers :
        /\ writers[s].pc = "exists"
        /\ writers' = [writers EXCEPT ![s].pc = "open",
                                      ![s].exists = mood_log.exists]
        /\ UNCHANGED <<history, pending_checkin, mood_log, now, DEEPSEEK_API_KEY,
                       user_text, route, store, shown, outbound, detected,
                       appends>>

\* line 70: open(filepath, "a", ...) creates the file when there is none
LogOpen ==
    \E s \in DOMAIN writers :
        /\ writers[s].pc = "open"
        /\ writers' = [writers EXCEPT ![s].pc = "write"]
        /\ mood_log' = [mood_log EXCEPT !.exists = TRUE]
        /\ UNCHANGED <<history, pending_checkin, now, DEEPSEEK_API_KEY,
                       user_text, route, store, shown, outbound, detected,
                       appends>>

\* the same, but with the header written by every call
WrittenRows_HeaderAlways(exists, ts, score) ==
    <<HeaderRow, CsvRow(<<Strftime(ts), Str(score)>>)>>

\* lines 72-74: the rows one call writes, given what exists was at line 69
WrittenRows(exists, ts, score) ==
    (IF ~exists THEN <<HeaderRow>> ELSE <<>>)
    \o <<CsvRow(<<Strftime(ts), Str(score)>>)>>

\* lines 71-74 and the end of the with block: the rows reach the file
LogWrite ==
    \E s \in DOMAIN writers :
        /\ writers[s].pc = "write"
        /\ mood_log' = [mood_log EXCEPT !.lines =
                            @ \o WrittenRows(writers[s].exists, writers[s].ts,
                                             writers[s].score)]
        /\ appends' = Append(appends, [ts |-> writers[s].ts,
                                       score |-> writers[s].score])
        /\ writers' = [writers EXCEPT ![s] = IdleWriter]
        /\ UNCHANGED <<history, pending_checkin, now, DEEPSEEK_API_KEY,
                       user_text, route, store, shown, outbound, detected>>

NextLog ==
    LogStamp \/ LogExists \/ LogOpen \/ LogWrite \/ Tick

\* one session appends score after score
SpecLog == InitLog(OneSession) /\ [][NextLog]_vars

\* several sessions append at the same time
SpecConcurrent == InitLog(Sessions) /\ [][NextLog]_vars

\* ------------------------------------------------------------------------
\* A long conversation: a session with a credential that keeps asking
\* ------------------------------------------------------------------------
\* the chat inputs of the long conversation: a message no fast path takes
LongInputs == {<<"7", ".", "5">>}

InitLongChat ==
    /\ Init
    /\ client
    /\ ~mood_log.exists

ChatRunLong == ChatRunOf(LongInputs, {"ok"}, MaxLongHistory)

NextLongChat == ChatRunLong

SpecLongChat == InitLongChat /\ [][NextLongChat]_vars

\* ------------------------------------------------------------------------
\* The classifier on its own: detect_mood applied to a text
\* ------------------------------------------------------------------------
\* the words of the texts: a trigger phrase of each tag, in several cases,
\* a word that holds a trigger phrase inside it, and words without one
\* ("stressed" alone is no trigger phrase)
ClassifyWords == {
    <<"p","r","e","s","s","u","r","e">>,
    <<"P","A","N","I","C">>,
    <<"s","a","d">>,
    <<"T","i","r","e","d">>,
    <<"u","n","s","a","d","d","l","e","d">>,
    <<"s","t","r","e","s","s","e","d">>,
    <<"o","k">> }

RECURSIVE JoinWords(_)
JoinWords(ws) ==
    IF Len(ws) = 0 THEN <<>>
    ELSE IF Len(ws) = 1 THEN ws[1]
    ELSE ws[1] \o <<" ">> \o JoinWords(Tail(ws))

\* the texts of at most MaxWords words
ClassifyTexts ==
    {JoinWords(ws) : ws \in UNION {[1..n -> ClassifyWords] : n \in 0..MaxWords}}

InitClassify ==
    /\ SessionAtRest
    /\ user_text \in ClassifyTexts
    /\ mood_log = [exists |-> FALSE, lines |-> <<>>]
    /\ now = 0
    /\ detected = "unset"
    /\ writers = <<>>
    /\ appends = <<>>

\* mood = detect_mood(text)
Classify ==
    /\ detected = "unset"
    /\ detected' = detect_mood(user_text)
    /\ UNCHANGED <<history, pending_checkin, mood_log, now, DEEPSEEK_API_KEY,
                   user_text, route, store, shown, outbound, writers,
                   appends>>

NextClassify == Classify

SpecClassify == InitClassify /\ [][NextClassify]_vars

\* ------------------------------------------------------------------------
\* Vocabulary of the properties
\* ------------------------------------------------------------------------
\* the step is a script run that handles a chat message: user_text' is the
\* message, the unprimed variables are the session before it
ChatStep == user_text' # <<>> /\ now' = now

\* the message of the step as the routing sees it (line 196)
StepText == Strip(user_text')

IsGreetingLiteral(text) ==
    Lower(text) \in {<<"h","i">>, <<"h","e","l","l","o">>, <<"h","e","y">>}

\* the message is a fast path message whatever the state of the session
IsFastPathText(text) ==
    \/ IsGreetingLiteral(text)
    \/ detect_mood(text) # "None"
    \/ is_checkin_request(text)

\* the message is the integer x
IsInteger(text, x) == IsIntLiteral(text) /\ IntValue(text) = x

IsValidAnswer(text) == \E x \in 1..10 : IsInteger(text, x)

GatewayRoutes == {"nokey", "gateway_ok", "gateway_err"}

AnswerRoutes == {"logged", "reprompt"}

\* the second field of a log line
ScoreField(line) ==
    LET i == CHOOSE j \in 1..Len(line) : line[j] = ","
    IN SubSeq(line, i + 1, Len(line))

\* the score records of the log file: its lines but the header
Records(lines) == SelectSeq(lines, LAMBDA l : l # HeaderRow)

\* lines2 is lines1 followed by new lines holding exactly one record, of
\* score x
OneRecordAppended(lines1, lines2, x) ==
    /\ Len(lines2) > Len(lines1)
    /\ SubSeq(lines2, 1, Len(lines1)) = lines1
    /\ LET added == Records(SubSeq(lines2, Len(lines1) + 1, Len(lines2)))
       IN /\ Len(added) = 1
          /\ IsInteger(ScoreField(added[1]), x)

\* ------------------------------------------------------------------------
\* C1
\* ------------------------------------------------------------------------
\* C1 as stated: while pending_checkin is true every message, whatever its
\* text, is handled as a numeric answer attempt (never the greeting reply,
\* the mood reply, the check-in prompt or the Gateway).
C1_EveryMessageIsAnswerAttempt ==
    [][(pending_checkin /\ ChatStep) => route' \in AnswerRoutes]_vars

\* C1 amended: while pending_checkin is true no message reaches the Assistant
\* Gateway (no request, no missing-key reply); a message that is not a
\* greeting literal and holds no mood phrase and no check-in phrase is
\* handled as a numeric answer attempt, and a message that is one of these
\* takes its fast path (greeting reply, mood reply, check-in prompt).
C1_PendingNeverReachesGateway ==
    [][(pending_checkin /\ ChatStep) =>
          /\ route' \notin GatewayRoutes
          /\ outbound' = <<>>
          /\ (~IsFastPathText(StepText) => route' \in AnswerRoutes)
          /\ (IsFastPathText(StepText) =>
                 route' \in {"greeting", "mood", "checkin"})]_vars

\* a check-in is pending after a message was handled as an answer attempt
C1_Witness == pending_checkin /\ route = "reprompt" /\ Len(history) = 4

C3_InvalidAnswerKeepsState ==
    [][(pending_checkin /\ ChatStep /\ ~IsValidAnswer(StepText)) =>
          (pending_checkin' /\ mood_log' = mood_log)]_vars

\* an integer outside 1..10 was answered with the re-prompt
C3_Witness ==
    /\ pending_checkin
    /\ route = "reprompt"
    /\ IsIntLiteral(user_text)
    /\ IntValue(user_text) \notin 1..10

\* ------------------------------------------------------------------------
\* C4
\* ------------------------------------------------------------------------
\* C4: pending_checkin starts false; it changes from false to true only in
\* a step that handles a message recognized by the Check-in Detector, and
\* from true to false only in a step that handles an integer in 1..10.
C4_PendingChanges ==
    /\ ~pending_checkin
    /\ [][/\ (~pending_checkin /\ pending_checkin') =>
                 (ChatStep /\ is_checkin_request(StepText))
          /\ (pending_checkin /\ ~pending_checkin') =>
                 (ChatStep /\ IsValidAnswer(StepText))]_vars

\* the flag was set by a check-in request and cleared by a valid answer
C4_Witness ==
    /\ ~pending_checkin
    /\ route = "logged"
    /\ Len(history) = 4
    /\ is_checkin_request(history[1].content)

\* ------------------------------------------------------------------------
\* C5
\* ------------------------------------------------------------------------
\* C5 as stated: a message that contains a check-in request phrase sets
\* pending_checkin to true even when it also contains a mood keyword phrase.
C5_CheckinPhraseAlwaysStarts ==
    [][(ChatStep /\ is_checkin_request(StepText)) => pending_checkin']_vars

\* C5 amended: a message that contains a check-in request phrase sets
\* pending_checkin to true and gets the 1-10 prompt when it contains no mood
\* keyword phrase; when it also contains a mood keyword phrase it gets the
\* canned reply of the mood and pending_checkin is left as it was.
C5_MoodPhraseWinsOverCheckin ==
    [][(ChatStep /\ is_checkin_request(StepText)) =>
          IF detect_mood(StepText) = "None"
          THEN pending_checkin' /\ shown' = CHECKIN_PROMPT
          ELSE /\ pending_checkin' = pending_checkin
               /\ shown' = MOOD_RESPONSES[detect_mood(StepText)]]_vars

\* a message with a check-in phrase and a mood phrase got the mood reply
C5_Witness ==
    /\ is_checkin_request(Strip(user_text))
    /\ detect_mood(Strip(user_text)) # "None"
    /\ route = "mood"
    /\ ~pending_checkin

\* ------------------------------------------------------------------------
\* C6
\* ------------------------------------------------------------------------
\* C6: a message that, trimmed and lower-cased, is exactly "hi", "hello" or
\* "hey" gets the fixed greeting reply whether a check-in is pending or not;
\* the step leaves pending_checkin and the mood log unchanged, gives no mood
\* reply, starts no check-in and sends no request.
C6_GreetingShortCircuits ==
    [][(ChatStep /\ IsGreetingLiteral(StepText)) =>
          /\ route' = "greeting"
          /\ shown' = GREETING_REPLY
          /\ history' = history \o <<Msg("user", StepText),
                                     Msg("assistant", GREETING_REPLY)>>
          /\ pending_checkin' = pending_checkin
          /\ mood_log' = mood_log
          /\ outbound' = <<>>]_vars

\* a greeting written with a capital and blanks was answered while a
\* check-in was pending
C6_Witness ==
    /\ pending_checkin
    /\ route = "greeting"
    /\ user_text # Lower(Strip(user_text))

\* ------------------------------------------------------------------------
\* C7
\* ------------------------------------------------------------------------
\* C7: the handling of every user message, on every routing path including
\* the error paths, grows the history by exactly two messages, the user
\* message followed by one assistant reply.
C7_HistoryGrowsByTwo ==
    [][ChatStep =>
          /\ Len(history') = Len(history) + 2
          /\ SubSeq(history', 1, Len(history)) = history
          /\ history'[Len(history) + 1] = Msg("user", StepText)
          /\ history'[Len(history) + 2].role = "assistant"]_vars

\* ------------------------------------------------------------------------
\* C8
\* ------------------------------------------------------------------------
\* C8: when the Gateway call raises, the user is shown the fixed failure
\* message, the history gains the user's message, the mood log and
\* pending_checkin are unchanged; the next message is accepted and routed
\* as any message of an idle session (greeting, mood, check-in or Gateway).
C8_GatewayErrorRecovered ==
    [][/\ (ChatStep /\ route' = "gateway_err") =>
              /\ shown' = REQUEST_FAILED
              /\ history' = Append(history, Msg("user", StepText))
              /\ mood_log' = mood_log
              /\ pending_checkin' = pending_checkin
       /\ (ChatStep /\ route = "gateway_err") =>
              /\ Len(history') > Len(history)
              /\ history'[Len(history) + 1] = Msg("user", StepText)
              /\ mood_log' = mood_log
              /\ IF IsGreetingLiteral(StepText)
                 THEN route' = "greeting" /\ shown' = GREETING_REPLY
                 ELSE IF detect_mood(StepText) # "None"
                 THEN route' = "mood"
                 ELSE IF is_checkin_request(StepText)
                 THEN route' = "checkin" /\ pending_checkin'
                 ELSE route' \in GatewayRoutes]_vars

\* a message was handled and answered right after a failed Gateway call
C8_Witness ==
    /\ Len(history) = 3
    /\ history[1].role = "user"
    /\ history[2].role = "user"
    /\ history[3].role = "assistant"
    /\ route = "checkin"

\* ------------------------------------------------------------------------
\* C9
\* ------------------------------------------------------------------------
\* C9: when the append to the mood log fails while a valid answer is
\* handled, the reply is neither the "logged your mood" acknowledgment nor
\* the invalid-number re-prompt.
C9_StoreFailureSurfaced ==
    store = "failed" =>
        /\ \A x \in 1..10 : shown # LoggedReply(x)
        /\ shown # REPROMPT

\* ------------------------------------------------------------------------
\* C10
\* ------------------------------------------------------------------------
\* C10: without a credential no step sends a request; a message that falls
\* through to the Gateway gets the missing-key reply; a message on the
\* greeting, mood, check-in or answer path is handled exactly as the session
\* with the other credential setting handles it.
C10_NoKeyNoRequest ==
    [][/\ ~client => outbound' = <<>>
       /\ (ChatStep /\ ~client /\ ~pending_checkin
             /\ ~IsFastPathText(StepText)) =>
              /\ route' = "nokey"
              /\ shown' = MISSING_KEY_REPLY
              /\ history' = history \o <<Msg("user", StepText),
                                         Msg("assistant", MISSING_KEY_REPLY)>>
       /\ (ChatStep /\ (pending_checkin \/ IsFastPathText(StepText))) =>
              \E fs \in FsOutcomes :
                 LET o == Handle(history, pending_checkin, mood_log, now,
                                 ~client, user_text', fs, NoResponse)
                 IN /\ history' = o.history
                    /\ pending_checkin' = o.pending_checkin
                    /\ mood_log' = o.mood_log
                    /\ shown' = o.shown
                    /\ outbound' = o.outbound]_vars

\* a session without a credential gave the missing-key reply, after a
\* check-in on the fast paths
C10_Witness ==
    /\ ~client
    /\ route = "nokey"
    /\ Len(history) = 4
    /\ history[4].content = MISSING_KEY_REPLY
    /\ history[2].content # MISSING_KEY_REPLY

\* ------------------------------------------------------------------------
\* Vocabulary of the log store properties
\* ------------------------------------------------------------------------
\* the first field of a log line
TimestampField(line) ==
    LET i == CHOOSE j \in 1..Len(line) : line[j] = ","
    IN SubSeq(line, 1, i - 1)

\* the line is one complete score record: a timestamp, one comma, a score
\* between 1 and 10
IsScoreRecord(line) ==
    /\ Cardinality({j \in 1..Len(line) : line[j] = ","}) = 1
    /\ IsIntLiteral(TimestampField(line))
    /\ IsValidAnswer(ScoreField(line))

\* what a reader of the file gets: the first line names the columns, every
\* later line is a record of timestamp and score (a line that does not
\* parse as one reads as the record of -1 and -1)
ReadRow(line) ==
    IF /\ Cardinality({j \in 1..Len(line) : line[j] = ","}) = 1
       /\ IsIntLiteral(TimestampField(line))
       /\ IsIntLiteral(ScoreField(line))
    THEN [ts |-> IntValue(TimestampField(line)),
          score |-> IntValue(ScoreField(line))]
    ELSE [ts |-> -1, score |-> -1]

ReadBack(lines) == [i \in 1..(Len(lines) - 1) |-> ReadRow(lines[i + 1])]

\* ------------------------------------------------------------------------
\* C11
\* ------------------------------------------------------------------------
\* C11: when two or more sessions append scores concurrently to a log file
\* that did not exist, under any interleaving the file holds the header
\* exactly once, as its first line, followed only by complete score
\* records, one per append that has returned.
C11_ConcurrentLogWellFormed ==
    LET lines == mood_log.lines
    IN /\ lines = <<>> => appends = <<>>
       /\ lines # <<>> =>
             /\ lines[1] = HeaderRow
             /\ \A i \in 2..Len(lines) : IsScoreRecord(lines[i])
             /\ Len(lines) - 1 = Len(appends)

C13_AtMostOneRequest ==
    [][ChatStep =>
          LET falls == ~pending_checkin /\ ~IsFastPathText(StepText)
          IN /\ Len(outbound') <= 1
             /\ (falls /\ client) =>
                    /\ Len(outbound') = 1
                    /\ route' \in {"gateway_ok", "gateway_err"}
             /\ (~falls \/ ~client) => outbound' = <<>>]_vars

\* after a greeting answered without a request, a message fell through to
\* the completion service, which raised: one request was sent
C13_Witness ==
    /\ client
    /\ Len(history) = 3
    /\ history[2].content = GREETING_REPLY
    /\ route = "gateway_err"
    /\ Len(outbound) = 1

\* ------------------------------------------------------------------------
\* Vocabulary of the Gateway properties
\* ------------------------------------------------------------------------
\* the responses without content: None, empty or whitespace only
BlankResponses ==
    {resp \in Responses :
        /\ resp.kind # "raise"
        /\ (resp.kind = "str" => Strip(resp.content) = <<>>)}

\* ------------------------------------------------------------------------
\* C14
\* ------------------------------------------------------------------------
\* C14: when the completion service returns an empty or whitespace-only
\* response (or no content at all), the reply shown and appended is the
\* fixed substitute "Empty response returned."; and no assistant message
\* with empty content is ever in the history.
C14_EmptyResponseSubstituted ==
    /\ \A i \in 1..Len(history) :
          history[i].role = "assistant" => Strip(history[i].content) # <<>>
    /\ \A resp \in BlankResponses :
          LET h1 == Append(history, Msg("user", <<"7", ".", "5">>))
              o == GatewayBranch(h1, pending_checkin, mood_log, resp)
          IN /\ o.shown = EMPTY_RESPONSE
             /\ o.history = Append(h1, Msg("assistant", EMPTY_RESPONSE))

\* the service answered a second message with nothing but whitespace and the
\* substitute was appended
C14_Witness ==
    /\ route = "gateway_ok"
    /\ shown = EMPTY_RESPONSE
    /\ Len(history) = 4
    /\ history[4] = Msg("assistant", EMPTY_RESPONSE)

\* ------------------------------------------------------------------------
\* C15
\* ------------------------------------------------------------------------
\* C15: for every text, detect_mood returns the first tag, in the order
\* stress, anxiety, sad, tired, that has a trigger phrase contained in the
\* lower-cased text, wherever in the text the phrases stand; it returns
\* none exactly when no phrase of any tag is contained.
C15_FirstTagInTableOrder ==
    detected # "unset" =>
       LET t == Lower(user_text)
           Has(tag) ==
               \E k \in 1..Len(mood_map) :
                  /\ mood_map[k][1] = tag
                  /\ \E n \in 1..Len(mood_map[k][2]) :
                        \E at \in 0..(Len(t) - Len(mood_map[k][2][n])) :
                           SubSeq(t, at + 1, at + Len(mood_map[k][2][n]))
                             = mood_map[k][2][n]
       IN /\ detected = (IF Has("stress") THEN "stress"
                         ELSE IF Has("anxiety") THEN "anxiety"
                         ELSE IF Has("sad") THEN "sad"
                         ELSE IF Has("tired") THEN "tired"
                         ELSE "None")
          /\ detected = "None" <=>
                ~(Has("stress") \/ Has("anxiety") \/ Has("sad")
                    \/ Has("tired"))

\* a text with a phrase of sad in front of a phrase of anxiety, in upper
\* case, was classified as anxiety
C15_Witness ==
    /\ user_text = <<"s","a","d"," ","P","A","N","I","C">>
    /\ detected = "anxiety"

\* ------------------------------------------------------------------------
\* C16
\* ------------------------------------------------------------------------
\* C16: a message that is not a greeting and holds a trigger phrase of a
\* mood tag is answered with exactly the canned reply of that tag; the step
\* leaves pending_checkin and the mood log unchanged and sends no request,
\* so an idle session stays idle.
C16_MoodReplyOnly ==
    [][(/\ ChatStep
        /\ ~IsGreetingLiteral(StepText)
        /\ detect_mood(StepText) # "None") =>
          /\ shown' = MOOD_RESPONSES[detect_mood(StepText)]
          /\ history' = history \o <<Msg("user", StepText),
                                     Msg("assistant", shown')>>
          /\ pending_checkin' = pending_checkin
          /\ mood_log' = mood_log
          /\ outbound' = <<>>]_vars

\* an idle session got the reply of the tag sad and is still idle
C16_Witness ==
    /\ ~pending_checkin
    /\ Len(history) = 2
    /\ detect_mood(history[1].content) = "sad"
    /\ history[2] = Msg("assistant", MOOD_RESPONSES["sad"])
    /\ MOOD_RESPONSES["sad"] # MOOD_RESPONSES["stress"]
    /\ outbound = <<>>

\* ------------------------------------------------------------------------
\* C17
\* ------------------------------------------------------------------------
\* C17: the mood log changes only in a step that handles a message while
\* pending_checkin is true and the message parses as an integer between 1
\* and 10; every other step, a bare number sent to an idle session
\* included, leaves it unchanged, so every record of the log has a score
\* between 1 and 10.
C17_LogChangesOnlyOnValidAnswer ==
    /\ [][mood_log' # mood_log =>
             /\ ChatStep
             /\ pending_checkin
             /\ IsValidAnswer(StepText)]_vars
    /\ [](\A i \in 1..Len(mood_log.lines) :
             mood_log.lines[i] # HeaderRow =>
                IsValidAnswer(ScoreField(mood_log.lines[i])))

\* a bare number was sent to an idle session: it went to the Gateway path
\* and the log is as it was
C17_Witness ==
    /\ Len(history) = 2
    /\ IsValidAnswer(history[1].content)
    /\ history[2].content = MISSING_KEY_REPLY
    /\ ~pending_checkin
    /\ mood_log = [exists |-> FALSE, lines |-> <<>>]

\* ------------------------------------------------------------------------
\* C18
\* ------------------------------------------------------------------------
\* C18: the history is append-only: its value before any step is a prefix
\* of its value after the step.
C18_HistoryAppendOnly ==
    [][/\ Len(history') >= Len(history)
       /\ SubSeq(history', 1, Len(history)) = history]_vars

\* a second exchange was appended behind the first
C18_Witness ==
    /\ Len(history) = 4
    /\ history[3].role = "user"
    /\ route = "greeting"

\* ------------------------------------------------------------------------
\* C19
\* ------------------------------------------------------------------------
\* C19: the context sent to the completion service is the last min(12,
\* length) messages of the history, in insertion order, taken after the
\* current user message was appended: its last entry is the current user
\* message and it never has more than 12 entries.
C19_ContextIsLastTwelve ==
    [][(ChatStep /\ outbound' # <<>>) =>
          LET h1 == Append(history, Msg("user", StepText))
              n == IF Len(h1) < 12 THEN Len(h1) ELSE 12
              window == [i \in 1..n |-> h1[Len(h1) - n + i]]
              sent == outbound'[1].prompt
          IN /\ Len(outbound') = 1
             /\ n <= 12
             /\ window[n] = Msg("user", StepText)
             /\ SubSeq(sent, 6, Len(sent)) = Context(window)
             /\ Cardinality({k \in 6..Len(sent) : sent[k] = ": "}) = n]_vars

\* a request was sent from a history of 13 messages: the first of them is
\* outside the context
C19_Witness ==
    /\ Len(history) = 13
    /\ route = "gateway_err"
    /\ Len(outbound) = 1
    /\ history[13].role = "user"


====
